---------------------------- MODULE Spec2Model ----------------------------
(***************************************************************************)
(* A model of cargo-vanish (src/src/main.rs): the discovery walk of        *)
(* Projects::new, the ordering of Project, the BTreeSet partition, and the  *)
(* confirmation and per-project loop of Projects::clean.                    *)
(*                                                                         *)
(* Strings are sequences of byte values, paths are sequences of            *)
(* components (each a string), Option<u64> is <<>> for None and <<n>> for   *)
(* Some(n), and a BTreeSet<Project> is the ascending sequence of its        *)
(* members under Ord for Project.                                          *)
(***************************************************************************)
EXTENDS Integers, Sequences, FiniteSets, TLC

\* Largest artifact size (bytes of target/) of the modelled file systems.
MaxSize == 1
\* Largest number of failed stdin reads in one run of the prompt.
MaxReadErrs == 1
\* Largest number of members of the ordered set of SetSpec.
MaxInserts == 3

VARIABLES
    fs,          \* the directory tree below the scan root: dir -> what it holds
    order,       \* the order read_dir lists a directory in (forward or reversed)
    cfg,         \* the parsed Cli
    pc,          \* position of main
    iter,        \* items the WalkDir iterator has still to yield
    matches,     \* Projects::new: BTreeSet of the projects the regex matched
    unmatched,   \* Projects::new: BTreeSet of the others
    discovered,  \* the projects built by the loop of Projects::new, in order
    warnings,    \* number of "WalkDir error" warnings logged
    included,    \* Projects.included
    ignored,     \* Projects.ignored
    buf,         \* Projects::clean: the line buffer
    midRead,     \* a read_line of the current prompt iteration has failed
    readErrs,    \* number of failed read_line calls so far
    prompted,    \* the confirmation question has been printed
    inputRead,   \* read_line has returned a line (or end of input)
    idx,         \* <BTreeSet as Vanish>::clean: members already processed
    invoked,     \* the cargo clean invocations: manifest path and launch result
    listedIncluded, \* self.included.list() has run
    listedIgnored,  \* "Ignored:" and self.ignored.list() have run
    jsonPrinted,    \* Projects::list has printed the JSON document
    tset,        \* a BTreeSet<Project> on its own (SetSpec)
    ta, tb,      \* the two projects last compared (CmpSpec)
    tord,        \* the result of the last comparison (CmpSpec)
    nin,         \* the arguments of the last Project::new on its own (NewSpec)
    nres         \* its result (NewSpec)

mainVars == <<fs, order, cfg, pc, iter, matches, unmatched, discovered,
              warnings, included, ignored, buf, midRead, readErrs, prompted,
              inputRead, idx, invoked, listedIncluded, listedIgnored,
              jsonPrinted>>
setVars == <<tset, ta, tb, tord, nin, nres>>
vars == <<mainVars, setVars>>

----------------------------------------------------------------------------
(* Strings and paths *)

\* "Cargo.toml"
CargoToml == <<67, 97, 114, 103, 111, 46, 116, 111, 109, 108>>
\* "target"
TargetDir == <<116, 97, 114, 103, 101, 116>>
\* directory names "a", "b", ".h" and the scan roots "w", ".w"
NameA == <<97>>
NameB == <<98>>
NameDotH == <<46, 104>>
RootW == <<119>>
RootDotW == <<46, 119>>

None == <<>>
Some(n) == <<n>>
Sizes == {None} \cup {Some(n) : n \in 0..MaxSize}

RECURSIVE JoinPath(_)
\* Path::to_str: the components separated by '/' (47)
JoinPath(p) ==
    IF p = <<>> THEN <<>>
    ELSE IF Len(p) = 1 THEN p[1]
    ELSE p[1] \o <<47>> \o JoinPath(Tail(p))

\* Path::parent of a path with at least one component
Parent(p) == SubSeq(p, 1, Len(p) - 1)

\* Path::file_name
FileName(p) == p[Len(p)]

RECURSIVE BytesCmp(_, _)
\* Ord for OsStr: bytewise lexicographic
BytesCmp(s, t) ==
    IF s = <<>> THEN (IF t = <<>> THEN "Equal" ELSE "Less")
    ELSE IF t = <<>> THEN "Greater"
    ELSE IF Head(s) < Head(t) THEN "Less"
    ELSE IF Head(s) > Head(t) THEN "Greater"
    ELSE BytesCmp(Tail(s), Tail(t))

RECURSIVE PathCmp(_, _)
\* Ord for Path: lexicographic over the components
PathCmp(p, q) ==
    IF p = <<>> THEN (IF q = <<>> THEN "Equal" ELSE "Less")
    ELSE IF q = <<>> THEN "Greater"
    ELSE LET c == BytesCmp(Head(p), Head(q))
         IN IF c = "Equal" THEN PathCmp(Tail(p), Tail(q)) ELSE c

\* Ord for Option<u64>: None below every Some, Some by value
OptionCmp(a, b) ==
    IF a = None THEN (IF b = None THEN "Equal" ELSE "Less")
    ELSE IF b = None THEN "Greater"
    ELSE IF a[1] < b[1] THEN "Less"
    ELSE IF a[1] > b[1] THEN "Greater"
    ELSE "Equal"

----------------------------------------------------------------------------
(* Project: ordering, equality, and the ordered set *)

\* partial_cmp with the size tie-break on the path left out
partial_cmp_size_only(self, other) == OptionCmp(self.size, other.size)

\* partial_cmp comparing unwrap_or(0) of the sizes
partial_cmp_none_as_zero(self, other) ==
    LET z(s) == IF s = None THEN Some(0) ELSE s
        ord == OptionCmp(z(self.size), z(other.size))
    IN IF ord = "Equal" THEN PathCmp(self.path, other.path) ELSE ord

\* PartialOrd for Project: the sizes, then the paths
partial_cmp(self, other) ==
    LET ord == OptionCmp(self.size, other.size)
    IN CASE ord = "Less" -> ord
         [] ord = "Equal" -> PathCmp(self.path, other.path)
         [] ord = "Greater" -> ord

\* Ord for Project
cmp(self, other) == partial_cmp(self, other)

\* PartialEq for Project
eq(self, other) == self.path = other.path

RECURSIVE BTreeInsert(_, _)
\* BTreeSet::insert: the set is searched with Ord; a member comparing Equal
\* keeps its place and the new value is dropped
BTreeInsert(s, x) ==
    IF s = <<>> THEN <<x>>
    ELSE LET c == cmp(x, Head(s))
         IN IF c = "Less" THEN <<x>> \o s
            ELSE IF c = "Equal" THEN s
            ELSE <<Head(s)>> \o BTreeInsert(Tail(s), x)

Members(s) == {s[i] : i \in 1..Len(s)}
PathsOf(s) == [i \in 1..Len(s) |-> s[i].path]


----------------------------------------------------------------------------
(* The pattern *)

\* \w of the regex crate on bytes: [0-9A-Za-z_]
IsWordByte(c) ==
    \/ c \in 48..57
    \/ c \in 65..90
    \/ c \in 97..122
    \/ c = 95

\* \b at offset i (0..Len(hay)): exactly one neighbour is a word byte
WordBoundary(hay, i) ==
    LET before == i >= 1 /\ IsWordByte(hay[i])
        after == i < Len(hay) /\ IsWordByte(hay[i + 1])
    IN before # after

\* Regex::new: the user's pattern (a literal here), or \b\B when none is given
Regex_new(exclude) ==
    IF exclude # None THEN [kind |-> "literal", s |-> exclude[1]]
    ELSE [kind |-> "bB", s |-> <<>>]

\* Regex::find(..).is_some(): some offset of hay where the pattern matches
Regex_find(re, hay) ==
    IF re.kind = "literal"
    THEN \E i \in 1..(Len(hay) + 1) :
            /\ i + Len(re.s) - 1 <= Len(hay)
            /\ SubSeq(hay, i, i + Len(re.s) - 1) = re.s
    ELSE \E i \in 0..Len(hay) : WordBoundary(hay, i) /\ ~WordBoundary(hay, i)

----------------------------------------------------------------------------
(* The file system below the scan root *)

\* The directories below the root, as paths relative to it, parents first
DirSeq == << <<NameA>>, <<NameA, NameB>>, <<NameDotH>> >>
Dirs == {DirSeq[i] : i \in 1..Len(DirSeq)}

\* What a directory holds: no manifest ("plain"), a listing that fails
\* ("unreadable"), a Cargo.toml that fails to read or parse ("bad"), or a
\* Cargo.toml that parses ("ok") beside a target/ of the given size
Kinds ==
    {[t |-> k, size |-> None] : k \in {"plain", "unreadable", "bad"}}
    \cup {[t |-> "ok", size |-> s] : s \in Sizes}

\* The parsed Cargo.toml of each directory: a/ declares package.name = "foo",
\* .h/ has no [package], a/b/ has a [package] without name
TomlOf(d) ==
    IF d = <<NameA>>
    THEN [package |-> "table", name |-> "string", value |-> <<102, 111, 111>>]
    ELSE IF d = <<NameDotH>>
    THEN [package |-> "absent", name |-> "absent", value |-> <<>>]
    ELSE [package |-> "table", name |-> "absent", value |-> <<>>]

KindOf(f, d) == IF d = <<>> THEN [t |-> "plain", size |-> None] ELSE f[d]

Reverse(s) == [i \in 1..Len(s) |-> s[Len(s) + 1 - i]]

\* read_dir of directory d: its Cargo.toml, its target/, its subdirectories,
\* in the order the file system lists them
Listing(f, o, d) ==
    LET k == KindOf(f, d)
        sub(e) == Len(e) = Len(d) + 1 /\ SubSeq(e, 1, Len(d)) = d
        subs == SelectSeq(DirSeq, sub)
        l == (IF k.t \in {"ok", "bad"}
              THEN <<[kind |-> "file", name |-> CargoToml, dir |-> <<>>]>>
              ELSE <<>>)
             \o (IF k.size # None
                 THEN <<[kind |-> "target", name |-> TargetDir, dir |-> <<>>]>>
                 ELSE <<>>)
             \o [i \in 1..Len(subs) |->
                    [kind |-> "subdir", name |-> FileName(subs[i]), dir |-> subs[i]]]
    IN IF o THEN l ELSE Reverse(l)

\* is_hidden that takes only the name "." for hidden
is_hidden_dot_only(name) == name = <<46>>

\* is_hidden: the file name starts with "." (46)
is_hidden(name) == name # <<>> /\ Head(name) = 46

\* the predicate given to filter_entry
FilterEntryKeeps(name, c) == ~is_hidden(name) \/ c.hidden

OkItem(path, isDir) == [ok |-> TRUE, path |-> path, isDir |-> isDir]
ErrItem(path) == [ok |-> FALSE, path |-> path, isDir |-> FALSE]

RECURSIVE WalkEntry(_, _, _, _)
RECURSIVE WalkListing(_, _, _, _, _)
\* WalkDir::new(path).into_iter().filter_entry(..) from directory d on: the
\* entry itself, then what lies below it; a directory the predicate rejects is
\* not yielded and not descended into; a directory whose listing fails yields
\* an error after itself
WalkEntry(f, o, c, d) ==
    LET name == IF d = <<>> THEN FileName(c.directory) ELSE FileName(d)
        path == c.directory \o d
    IN IF ~FilterEntryKeeps(name, c) THEN <<>>
       ELSE <<OkItem(path, TRUE)>>
            \o (IF KindOf(f, d).t = "unreadable" THEN <<ErrItem(path)>>
                ELSE WalkListing(f, o, c, d, Listing(f, o, d)))

WalkListing(f, o, c, d, l) ==
    IF l = <<>> THEN <<>>
    ELSE LET e == Head(l)
             here == IF e.kind = "subdir" THEN WalkEntry(f, o, c, e.dir)
                     ELSE IF FilterEntryKeeps(e.name, c)
                     THEN <<OkItem(c.directory \o d \o <<e.name>>, e.kind = "target")>>
                     ELSE <<>>
         IN here \o WalkListing(f, o, c, d, Tail(l))

\* the .filter(..) of the loop: an entry whose file name is Cargo.toml
IsManifest(item) == item.ok /\ FileName(item.path) = CargoToml

\* index of the next item the for loop receives, 0 when the iterator ends
NextManifest(items) ==
    IF \E i \in 1..Len(items) : IsManifest(items[i])
    THEN CHOOSE i \in 1..Len(items) :
            /\ IsManifest(items[i])
            /\ \A j \in 1..(i - 1) : ~IsManifest(items[j])
    ELSE 0

\* the errors among the first n items: each is logged by filter_map and dropped
ErrsIn(items, n) == Cardinality({i \in 1..n : ~items[i].ok})

----------------------------------------------------------------------------
(* Project::new *)

\* the name: package.name when it is a string of a [package] table, else the
\* parent directory's path as a string
ProjectName(toml, path) ==
    IF toml.package = "table" /\ toml.name = "string"
    THEN [kind |-> "Explicit", s |-> toml.value]
    ELSE [kind |-> "Inferred", s |-> JoinPath(Parent(path))]

\* Project::new(path) on a manifest of kind man with parsed contents toml
Project_new(path, man, toml) ==
    IF path = <<>> \/ FileName(path) # CargoToml
    THEN [ok |-> FALSE, project |-> <<>>]
    ELSE IF man.t # "ok"
    THEN [ok |-> FALSE, project |-> <<>>]
    ELSE [ok |-> TRUE,
          project |-> [path |-> path,
                       name |-> ProjectName(toml, path),
                       size |-> man.size]]

\* Projects { included, ignored } with the invert flag left unread
PartitionIgnoringInvert(m, u, invert) == [included |-> u, ignored |-> m]

\* the Projects returned by Projects::new: matches and unmatched by invert
Partition(m, u, invert) ==
    IF invert THEN [included |-> m, ignored |-> u]
    ELSE [included |-> u, ignored |-> m]


----------------------------------------------------------------------------
(* The command line and the initial state *)

\* --exclude: none, "b" or "h"
Excludes == {None, Some(<<98>>), Some(<<104>>)}

\* Cli: clap rejects --invert without --exclude (requires = "exclude") and
\* --json without --list (requires = "list")
Configs ==
    {c \in [directory : {<<RootW>>, <<RootDotW>>},
            list : BOOLEAN,
            exclude : Excludes,
            invert : BOOLEAN,
            hidden : BOOLEAN,
            yes : BOOLEAN,
            json : BOOLEAN] :
        /\ c.invert => c.exclude # None
        /\ c.json => c.list}

NoProject == [path |-> <<>>, name |-> [kind |-> "Inferred", s |-> <<>>], size |-> None]

SetIdle ==
    /\ tset = <<>>
    /\ ta = NoProject
    /\ tb = NoProject
    /\ tord = "Equal"
    /\ nin = [path |-> <<>>, man |-> [t |-> "plain", size |-> None],
              toml |-> [package |-> "absent", name |-> "absent", value |-> <<>>]]
    /\ nres = [ok |-> FALSE, project |-> <<>>]

\* main up to the call of Projects::new: the arguments are parsed, the
\* iterator chain is built, both sets are empty
Init ==
    /\ fs \in [Dirs -> Kinds]
    /\ order \in BOOLEAN
    /\ cfg \in Configs
    /\ pc = "walk"
    /\ iter = WalkEntry(fs, order, cfg, <<>>)
    /\ matches = <<>>
    /\ unmatched = <<>>
    /\ discovered = <<>>
    /\ warnings = 0
    /\ included = <<>>
    /\ ignored = <<>>
    /\ buf = <<>>
    /\ midRead = FALSE
    /\ readErrs = 0
    /\ prompted = FALSE
    /\ inputRead = FALSE
    /\ idx = 0
    /\ invoked = <<>>
    /\ listedIncluded = FALSE
    /\ listedIgnored = FALSE
    /\ jsonPrinted = FALSE
    /\ SetIdle

cleanVars == <<buf, midRead, readErrs, prompted, inputRead, idx, invoked,
               listedIncluded, listedIgnored, jsonPrinted>>

----------------------------------------------------------------------------
(* Projects::new *)

\* the directory, relative to the root, of a manifest path the walk yields
DirOf(path) == SubSeq(path, Len(cfg.directory) + 1, Len(path) - 1)

\* One iteration of the for loop: the iterator skips to the next Cargo.toml
\* (logging the errors on the way), Project::new succeeds, and the project
\* goes to matches or unmatched
LoopBody ==
    /\ pc = "walk"
    /\ NextManifest(iter) > 0
    /\ LET k == NextManifest(iter)
           path == iter[k].path
           r == Project_new(path, fs[DirOf(path)], TomlOf(DirOf(path)))
           re == Regex_new(cfg.exclude)
       IN /\ r.ok
          /\ warnings' = warnings + ErrsIn(iter, k)
          /\ iter' = SubSeq(iter, k + 1, Len(iter))
          /\ discovered' = Append(discovered, r.project)
          /\ IF Regex_find(re, JoinPath(r.project.path))
             THEN /\ matches' = BTreeInsert(matches, r.project)
                  /\ UNCHANGED unmatched
             ELSE /\ unmatched' = BTreeInsert(unmatched, r.project)
                  /\ UNCHANGED matches
    /\ UNCHANGED <<fs, order, cfg, pc, included, ignored, cleanVars, setVars>>

\* The iteration in which Project::new returns Err: unwrap panics, main ends
\* without a Projects value
LoopPanic ==
    /\ pc = "walk"
    /\ NextManifest(iter) > 0
    /\ LET k == NextManifest(iter)
           path == iter[k].path
           r == Project_new(path, fs[DirOf(path)], TomlOf(DirOf(path)))
       IN /\ ~r.ok
          /\ warnings' = warnings + ErrsIn(iter, k)
          /\ iter' = SubSeq(iter, k + 1, Len(iter))
    /\ pc' = "panicked"
    /\ UNCHANGED <<fs, order, cfg, matches, unmatched, discovered, included,
                   ignored, cleanVars, setVars>>

\* The iterator ends: the remaining errors are logged and Projects is built
LoopEnd ==
    /\ pc = "walk"
    /\ NextManifest(iter) = 0
    /\ warnings' = warnings + ErrsIn(iter, Len(iter))
    /\ iter' = <<>>
    /\ included' = Partition(matches, unmatched, cfg.invert).included
    /\ ignored' = Partition(matches, unmatched, cfg.invert).ignored
    /\ pc' = "built"
    /\ UNCHANGED <<fs, order, cfg, matches, unmatched, discovered, cleanVars,
                   setVars>>

----------------------------------------------------------------------------
(* Projects::list and Projects::clean *)

walkVars == <<fs, order, cfg, iter, matches, unmatched, discovered, warnings,
              included, ignored>>

\* Projects::list: with --json the document is printed; both sets are listed
List ==
    /\ pc = "built"
    /\ cfg.list
    /\ jsonPrinted' = cfg.json
    /\ listedIncluded' = TRUE
    /\ listedIgnored' = TRUE
    /\ pc' = "done"
    /\ UNCHANGED <<walkVars, buf, midRead, readErrs, prompted, inputRead, idx,
                   invoked, setVars>>

\* lines stdin may deliver: "y\n", " YeS \n", "No\r\n", "es\n", and end of
\* input (read_line returns Ok(0) and appends nothing)
StdinLines ==
    {<<121, 10>>, <<32, 89, 101, 83, 32, 10>>, <<78, 111, 13, 10>>,
     <<101, 115, 10>>, <<>>}

\* bytes a failed read_line may have appended before the error: none, or "y"
PartialReads == {<<>>, <<121>>}

\* char::is_whitespace on ASCII
IsWhitespace(c) == c \in {9, 10, 11, 12, 13, 32}

RECURSIVE TrimStart(_)
TrimStart(s) ==
    IF s # <<>> /\ IsWhitespace(Head(s)) THEN TrimStart(Tail(s)) ELSE s

RECURSIVE TrimEnd(_)
TrimEnd(s) ==
    IF s # <<>> /\ IsWhitespace(s[Len(s)])
    THEN TrimEnd(SubSeq(s, 1, Len(s) - 1)) ELSE s

\* str::trim
trim(s) == TrimEnd(TrimStart(s))

\* str::to_lowercase on ASCII
to_lowercase(s) ==
    [i \in 1..Len(s) |-> IF s[i] \in 65..90 THEN s[i] + 32 ELSE s[i]]

\* "n", "no" and "y", "yes"
NoWords == {<<110>>, <<110, 111>>}
YesWords == {<<121>>, <<121, 101, 115>>}

\* the branch taken with every response but n/no taken for a yes
ResponseUnknownIsYes(b) ==
    IF to_lowercase(trim(b)) \in NoWords THEN "abort" ELSE "confirm"

\* the branch of the prompt loop taken on the line in buf
Response(b) ==
    IF to_lowercase(trim(b)) \in NoWords THEN "abort"
    ELSE IF to_lowercase(trim(b)) \in YesWords THEN "confirm"
    ELSE "retry"

\* the confirmation asked only when there is something to clean
AsksConfirmationNonEmpty(c, inc) == ~c.yes /\ inc # <<>>

\* `if !config.yes`: whether Projects::clean asks for confirmation
AsksConfirmation(c, inc) == ~c.yes

\* Projects::clean up to the first read: the included set is listed and,
\* without --yes, the question is printed
CleanBegin ==
    /\ pc = "built"
    /\ ~cfg.list
    /\ listedIncluded' = TRUE
    /\ IF AsksConfirmation(cfg, included)
       THEN /\ prompted' = TRUE
            /\ pc' = "awaiting"
       ELSE /\ UNCHANGED prompted
            /\ pc' = "cleaning"
    /\ UNCHANGED <<walkVars, buf, midRead, readErrs, inputRead, idx, invoked,
                   listedIgnored, jsonPrinted,
                   setVars>>

\* contents of buf when a read_line starts: cleared at the top of a prompt
\* iteration, kept between the retries of one iteration
BufAtRead == IF midRead THEN buf ELSE <<>>

\* read_line returns Err: a warning is logged and the read is retried
ReadErr ==
    /\ pc = "awaiting"
    /\ readErrs < MaxReadErrs
    /\ \E part \in PartialReads : buf' = BufAtRead \o part
    /\ midRead' = TRUE
    /\ readErrs' = readErrs + 1
    /\ UNCHANGED <<walkVars, pc, prompted, inputRead, idx, invoked,
                   listedIncluded, listedIgnored, jsonPrinted,
                   setVars>>

\* read_line returns Ok: the line is appended to buf and the response decided
ReadLine ==
    /\ pc = "awaiting"
    /\ \E line \in StdinLines :
          /\ buf' = BufAtRead \o line
          /\ pc' = CASE Response(BufAtRead \o line) = "abort" -> "aborted"
                     [] Response(BufAtRead \o line) = "confirm" -> "cleaning"
                     [] OTHER -> "awaiting"
    /\ midRead' = FALSE
    /\ inputRead' = TRUE
    /\ UNCHANGED <<walkVars, readErrs, prompted, idx, invoked, listedIncluded,
                   listedIgnored, jsonPrinted,
                   setVars>>

\* the loop of Vanish::clean left at the first invocation that fails
AfterInvocationStopOnError(i, launched, n) == IF launched THEN i + 1 ELSE n

\* the loop of Vanish::clean after an invocation: on to the next member
AfterInvocation(i, launched, n) == i + 1

\* One iteration of the loop of <BTreeSet<Project> as Vanish>::clean: cargo
\* clean --manifest-path <path> is launched, or fails to launch and is logged
CleanProject ==
    /\ pc = "cleaning"
    /\ idx < Len(included)
    /\ \E launched \in BOOLEAN :
          /\ invoked' = Append(invoked, [path |-> included[idx + 1].path,
                                         launched |-> launched])
          /\ idx' = AfterInvocation(idx, launched, Len(included))
    /\ UNCHANGED <<walkVars, pc, buf, midRead, readErrs, prompted, inputRead,
                   listedIncluded, listedIgnored, jsonPrinted,
                   setVars>>

\* the end of Projects::clean without the listing of the ignored set
CleanEndSilent ==
    /\ pc = "cleaning"
    /\ idx >= Len(included)
    /\ pc' = "done"
    /\ UNCHANGED <<walkVars, buf, midRead, readErrs, prompted, inputRead, idx,
                   invoked, listedIncluded, listedIgnored, jsonPrinted,
                   setVars>>

\* the loop has ended: "Ignored:" and the ignored set are printed
CleanEnd ==
    /\ pc = "cleaning"
    /\ idx >= Len(included)
    /\ listedIgnored' = TRUE
    /\ pc' = "done"
    /\ UNCHANGED <<walkVars, buf, midRead, readErrs, prompted, inputRead, idx,
                   invoked, listedIncluded, jsonPrinted,
                   setVars>>

Next ==
    \/ LoopBody
    \/ LoopPanic
    \/ LoopEnd
    \/ List
    \/ CleanBegin
    \/ ReadErr
    \/ ReadLine
    \/ CleanProject
    \/ CleanEnd

Spec == Init /\ [][Next]_vars


----------------------------------------------------------------------------
(* The ordered set and the comparison on their own *)

\* the projects compared and inserted: the manifest of the root "w" and of
\* every directory below it, with every size
TestProjects ==
    {[path |-> <<RootW>> \o d \o <<CargoToml>>,
      name |-> [kind |-> "Inferred", s |-> JoinPath(<<RootW>> \o d)],
      size |-> s] : d \in Dirs \cup {<<>>}, s \in Sizes}

SetInit ==
    /\ fs = [d \in Dirs |-> [t |-> "plain", size |-> None]]
    /\ order = TRUE
    /\ cfg = [directory |-> <<RootW>>, list |-> TRUE, exclude |-> None,
              invert |-> FALSE, hidden |-> FALSE, yes |-> FALSE,
              json |-> FALSE]
    /\ pc = "idle"
    /\ iter = <<>>
    /\ matches = <<>>
    /\ unmatched = <<>>
    /\ discovered = <<>>
    /\ warnings = 0
    /\ included = <<>>
    /\ ignored = <<>>
    /\ buf = <<>>
    /\ midRead = FALSE
    /\ readErrs = 0
    /\ prompted = FALSE
    /\ inputRead = FALSE
    /\ idx = 0
    /\ invoked = <<>>
    /\ listedIncluded = FALSE
    /\ listedIgnored = FALSE
    /\ jsonPrinted = FALSE
    /\ SetIdle

\* BTreeSet::insert of a project
SetInsert ==
    /\ Len(tset) < MaxInserts
    /\ \E p \in TestProjects : tset' = BTreeInsert(tset, p)
    /\ UNCHANGED <<mainVars, ta, tb, tord, nin, nres>>

\* a.cmp(&b) of two projects
Compare ==
    /\ \E a \in TestProjects, b \in TestProjects :
          /\ ta' = a
          /\ tb' = b
          /\ tord' = cmp(a, b)
    /\ UNCHANGED <<mainVars, tset, nin, nres>>

\* insertions into one ordered set
SetSpec == SetInit /\ [][SetInsert]_vars

\* comparisons of two projects
CmpSpec == SetInit /\ [][Compare]_vars

----------------------------------------------------------------------------
(* Project::new on its own *)

\* parsed manifests: no [package]; package not a table; a [package] table
\* without name, with name = 1, with name = "" and with name = "foo"
TomlDocs ==
    {[package |-> "absent", name |-> "absent", value |-> <<>>],
     [package |-> "scalar", name |-> "absent", value |-> <<>>],
     [package |-> "table", name |-> "absent", value |-> <<>>],
     [package |-> "table", name |-> "scalar", value |-> <<>>],
     [package |-> "table", name |-> "string", value |-> <<>>],
     [package |-> "table", name |-> "string", value |-> <<102, 111, 111>>]}

\* paths given to Project::new: the Cargo.toml, or the target, of the root
\* ("w" or ".w") and of every directory below it
NewPaths ==
    {<<r>> \o d \o <<f>> :
        r \in {RootW, RootDotW}, d \in Dirs \cup {<<>>}, f \in {CargoToml, TargetDir}}

\* Project::new(path) on a file of the given kind and parsed contents
ProjectNew ==
    /\ \E path \in NewPaths, t \in {"ok", "bad"}, size \in Sizes, toml \in TomlDocs :
          /\ nin' = [path |-> path, man |-> [t |-> t, size |-> size], toml |-> toml]
          /\ nres' = Project_new(path, [t |-> t, size |-> size], toml)
    /\ UNCHANGED <<mainVars, tset, ta, tb, tord>>

\* constructions of one project
NewSpec == SetInit /\ [][ProjectNew]_vars

----------------------------------------------------------------------------
(* Properties *)

\* Projects::new has returned
Built == pc \in {"built", "awaiting", "cleaning", "aborted", "done"}

\* C1: when Projects::new returns, included and ignored share no record and
\* no manifest path, and together they hold exactly the records the loop
\* built: none is lost and none is in both.
C1_Partition ==
    pc = "built" =>
        /\ Members(included) \cap Members(ignored) = {}
        /\ \A i \in 1..Len(included), j \in 1..Len(ignored) :
              included[i].path # ignored[j].path
        /\ Members(included) \cup Members(ignored) = Members(discovered)
        /\ Len(included) + Len(ignored) = Len(discovered)

C1_Witness ==
    /\ pc = "built"
    /\ Len(discovered) = 3
    /\ included # <<>>
    /\ ignored # <<>>
    /\ \E i \in 1..3, j \in 1..3 :
          i # j /\ discovered[i].size = discovered[j].size

\* the pattern, read as a literal, occurs somewhere in the string
Occurs(s, hay) ==
    \E i \in 1..(Len(hay) + 1), j \in 0..Len(hay) : SubSeq(hay, i, j) = s

\* C2: when Projects::new returns, a discovered record is in included exactly
\* when (its manifest path contains a match of the pattern) equals the invert
\* flag, and in ignored otherwise; with no pattern nothing matches, so every
\* record is included and ignored is empty.
C2_Routing ==
    pc = "built" =>
        /\ \A i \in 1..Len(discovered) :
              LET r == discovered[i]
                  m == /\ cfg.exclude # None
                       /\ Occurs(cfg.exclude[1], JoinPath(r.path))
              IN /\ (r \in Members(included)) <=> (m = cfg.invert)
                 /\ (r \in Members(ignored)) <=> (m # cfg.invert)
        /\ cfg.exclude = None =>
              /\ ignored = <<>>
              /\ Members(included) = Members(discovered)

C2_Witness ==
    /\ pc = "built"
    /\ cfg.invert
    /\ included # <<>>
    /\ ignored # <<>>

\* C3: the manifest paths passed to cargo clean are, in order, the first idx
\* members of included; when clean mode ends they are exactly the members of
\* included in the set's order, each once and none of ignored, whichever
\* invocations failed to launch.
C3_CleanOrder ==
    /\ Len(invoked) = idx
    /\ idx <= Len(included)
    /\ PathsOf(invoked) = SubSeq(PathsOf(included), 1, Len(invoked))
    /\ \A i \in 1..Len(invoked), j \in 1..Len(invoked) :
          i # j => invoked[i].path # invoked[j].path
    /\ \A i \in 1..Len(invoked), j \in 1..Len(ignored) :
          invoked[i].path # ignored[j].path
    /\ (pc = "done" /\ ~cfg.list) => PathsOf(invoked) = PathsOf(included)
    /\ \A i \in 1..(Len(included) - 1) :
          partial_cmp(included[i], included[i + 1]) = "Less"

C3_Witness ==
    /\ pc = "done"
    /\ Len(invoked) = 3
    /\ invoked[1].launched
    /\ ~invoked[2].launched
    /\ invoked[3].launched

\* a line without its terminator ("\n" or "\r\n")
StripLineEnd(s) ==
    IF Len(s) >= 2 /\ s[Len(s) - 1] = 13 /\ s[Len(s)] = 10
    THEN SubSeq(s, 1, Len(s) - 2)
    ELSE IF Len(s) >= 1 /\ s[Len(s)] = 10 THEN SubSeq(s, 1, Len(s) - 1)
    ELSE s

\* C4 as stated: without --yes, cargo clean is invoked only after a response
\* equal, ignoring case, to "y" or "yes"; "n" or "no" ends the workflow with
\* no invocation; every other response and every failed read leaves the
\* prompt waiting with no invocation.
C4_Original ==
    ~cfg.yes =>
        /\ invoked # <<>> => to_lowercase(StripLineEnd(buf)) \in YesWords
        /\ pc = "aborted" =>
              invoked = <<>> /\ to_lowercase(StripLineEnd(buf)) \in NoWords
        /\ pc = "awaiting" => invoked = <<>>
        /\ (inputRead /\ ~midRead
            /\ to_lowercase(StripLineEnd(buf)) \notin (YesWords \cup NoWords))
              => pc = "awaiting"

\* C4 (amended): without --yes, cargo clean is invoked only after a response
\* that, trimmed of surrounding whitespace and ignoring case, is "y" or
\* "yes"; one that so reads "n" or "no" ends the workflow with no invocation;
\* every other response and every failed read leaves the prompt waiting with
\* no invocation.
C4_Confirmation ==
    (~cfg.yes /\ ~cfg.list) =>
        /\ (invoked # <<>> \/ pc \in {"cleaning", "done"}) =>
              inputRead /\ to_lowercase(trim(buf)) \in YesWords
        /\ pc = "aborted" =>
              /\ inputRead
              /\ invoked = <<>>
              /\ to_lowercase(trim(buf)) \in NoWords
        /\ pc = "awaiting" => invoked = <<>>
        /\ midRead => pc = "awaiting"
        /\ (inputRead /\ ~midRead) =>
              /\ to_lowercase(trim(buf)) \in YesWords
                    => pc \in {"cleaning", "done"}
              /\ to_lowercase(trim(buf)) \in NoWords => pc = "aborted"
              /\ to_lowercase(trim(buf)) \notin (YesWords \cup NoWords)
                    => pc = "awaiting"

C4_Witness ==
    /\ ~cfg.yes
    /\ pc = "done"
    /\ readErrs > 0
    /\ invoked # <<>>
    /\ buf = <<32, 89, 101, 83, 32, 10>>

\* C9 as stated: the prompt is printed and input is read only when --yes is
\* absent and included is not empty.
C9_Original ==
    (prompted \/ inputRead \/ pc = "awaiting")
        => (~cfg.yes /\ included # <<>>)

\* C9 (amended): in clean mode the prompt is printed and input is read exactly
\* when --yes is absent, whether or not included is empty; with --yes no input
\* is ever read.
C9_Prompt ==
    /\ (prompted \/ inputRead \/ pc = "awaiting")
          => (~cfg.list /\ ~cfg.yes)
    /\ (~cfg.list /\ ~cfg.yes /\ pc \in {"awaiting", "aborted", "cleaning", "done"})
          => prompted
    /\ (~cfg.list /\ ~cfg.yes /\ pc \in {"aborted", "cleaning", "done"})
          => inputRead

C9_Witness ==
    /\ pc = "done"
    /\ ~cfg.list
    /\ included = <<>>
    /\ prompted
    /\ inputRead

\* Cli has no show-ignored option: it is never set
ShowIgnored == FALSE

\* C10 as stated: a clean run renders the ignored set exactly when showIgnored
\* is set.
C10_Original ==
    (~cfg.list /\ pc = "done") => (listedIgnored <=> ShowIgnored)

\* C10 (amended): a clean run always renders the ignored set once every
\* included project has been processed, never before, and never after an
\* abort.
C10_IgnoredAfterClean ==
    ~cfg.list =>
        /\ pc = "done" => listedIgnored
        /\ listedIgnored =>
              /\ pc = "done"
              /\ idx = Len(included)
              /\ Len(invoked) = Len(included)
        /\ pc = "aborted" => ~listedIgnored

C10_Witness ==
    /\ ~cfg.list
    /\ pc = "done"
    /\ listedIgnored
    /\ ignored # <<>>
    /\ invoked # <<>>

\* some component of the path after its first n starts with "."
HasDotSegment(path, n) ==
    \E i \in (n + 1)..Len(path) : path[i] # <<>> /\ path[i][1] = 46

\* the manifest of directory d parses and every directory above it lists
Reachable(d) ==
    /\ fs[d].t = "ok"
    /\ \A e \in Dirs :
          (Len(e) < Len(d) /\ SubSeq(d, 1, Len(e)) = e) => fs[e].t # "unreadable"

\* C7: without --hidden the walk yields nothing below a dot-named directory
\* under the root, so no record of included or ignored has a dot-named
\* segment between the root and the manifest; with --hidden the manifests
\* under such directories are discovered.
C7_Hidden ==
    /\ (~cfg.hidden /\ pc = "walk") =>
          /\ \A i \in 1..Len(iter) :
                ~HasDotSegment(Parent(iter[i].path), Len(cfg.directory))
          /\ \A r \in Members(matches) \cup Members(unmatched) :
                ~HasDotSegment(Parent(r.path), Len(cfg.directory))
    /\ (~cfg.hidden /\ pc = "built") =>
          \A r \in Members(included) \cup Members(ignored) :
              ~HasDotSegment(Parent(r.path), Len(cfg.directory))
    /\ (cfg.hidden /\ pc = "built") =>
          \A d \in Dirs :
              (HasDotSegment(d, 0) /\ Reachable(d)) =>
                  \E r \in Members(included) \cup Members(ignored) :
                      r.path = cfg.directory \o d \o <<CargoToml>>

C7_Witness ==
    /\ pc = "built"
    /\ ~cfg.hidden
    /\ cfg.directory = <<RootW>>
    /\ fs[<<NameDotH>>].t = "ok"
    /\ Len(included) + Len(ignored) = 2

\* C8 as stated: no discovery error ends the walk, and every manifest that
\* parses and can be reached ends up in the partition.
C8_Original ==
    /\ pc # "panicked"
    /\ Built =>
          \A d \in Dirs :
              (Reachable(d) /\ (cfg.hidden \/ ~HasDotSegment(cfg.directory \o d, 0))) =>
                  \E r \in Members(included) \cup Members(ignored) :
                      r.path = cfg.directory \o d \o <<CargoToml>>

\* C5: the comparison of two projects orders an absent size below every
\* present one and present sizes by value, falls back to the order of the
\* paths on equal sizes, is never Equal for distinct paths, and puts exactly
\* one of the two before the other.
C5_Order ==
    /\ (ta.size = None /\ tb.size # None) => tord = "Less"
    /\ (ta.size # None /\ tb.size = None) => tord = "Greater"
    /\ (ta.size # None /\ tb.size # None /\ ta.size[1] < tb.size[1])
          => tord = "Less"
    /\ (ta.size # None /\ tb.size # None /\ ta.size[1] > tb.size[1])
          => tord = "Greater"
    /\ ta.size = tb.size => tord = PathCmp(ta.path, tb.path)
    /\ ta.path # tb.path =>
          /\ tord \in {"Less", "Greater"}
          /\ (tord = "Less") # (cmp(tb, ta) = "Less")
    /\ ta.path = tb.path /\ ta.size = tb.size => tord = "Equal"

C5_Witness ==
    /\ ta.size = None
    /\ tb.size = Some(0)
    /\ PathCmp(ta.path, tb.path) = "Greater"
    /\ tord = "Less"

\* C6 as stated: no two members of an ordered set of projects share a
\* manifest path, whatever was inserted.
C6_Original ==
    \A i \in 1..Len(tset), j \in 1..Len(tset) :
        i # j => tset[i].path # tset[j].path


\* C11 as stated: a project that Project::new builds is named Explicit(n)
\* exactly when the manifest declares a non-empty string package.name = n, and
\* Inferred(d) otherwise, d being the final component of the path of the
\* manifest's parent directory.
C11_Original ==
    nres.ok =>
        LET declared == /\ nin.toml.package = "table"
                        /\ nin.toml.name = "string"
                        /\ nin.toml.value # <<>>
        IN IF declared
           THEN nres.project.name = [kind |-> "Explicit", s |-> nin.toml.value]
           ELSE nres.project.name =
                    [kind |-> "Inferred", s |-> FileName(Parent(nin.path))]

============================================================================
